---- MODULE Spec2Model ----
(***************************************************************************)
(* Model of the poetry-video generation pipeline of                        *)
(* services/video_service.py (VideoService.generate_video and              *)
(* VideoService._create_video_sync) with the collaborators it calls.       *)
(*                                                                         *)
(* Times are in tenths of a second, gains in hundredths.  A file's content *)
(* is an integer: Missing (no such file), 0 (a file that exists but cannot *)
(* be decoded: empty, partial or corrupt) or n > 0 (a decodable clip of n  *)
(* tenths of a second).                                                    *)
(***************************************************************************)
EXTENDS Integers, Sequences, FiniteSets, TLC

VARIABLES pc, req, render, fs, queue, narration, stale, faults, workload

vars == <<pc, req, render, fs, queue, narration, stale, faults, workload>>

----------------------------------------------------------------------------
(* Bounds of the model *)

NReq == 3

Requests == 1..NReq

DurationOverrides == {0, 10}        \* 0 stands for None (no override)

NarrationLens == {123}

VideoLens == {50, 400}

MusicLens == {50, 400}

MaxRawLines == 10                   \* longest custom_poetry text, in lines

\* the lengths of the narrations of the captioned requests, in tenths of a
\* second: a few short words, or a poem read slowly
CaptionNarrationLens == {30, 123}

----------------------------------------------------------------------------
(* Program constants *)

video_duration == 18                \* settings.video_duration, seconds

max_workers == 2                    \* ThreadPoolExecutor(max_workers=2)

video_width == 1080                 \* settings.video_width, pixels

video_height == 1920                \* settings.video_height, pixels

min_lines == 4                      \* settings.min_lines

max_lines == 8                      \* settings.max_lines

BufferTenths == 20                  \* voice_audio.duration + 2.0

GainWithVoice == 15                 \* bg_volume 0.15

GainNoVoice == 25                   \* bg_volume 0.25

GainVoice == 50                     \* volumex 0.5

----------------------------------------------------------------------------
(* Paths and files *)

None == <<"none", 0>>

BgOrig == <<"backgrounds_dir", 0>>      \* an asset of the backgrounds library

BgFetched == <<"backgrounds_dir", 1>>   \* an asset fetched into the library

AudioOrig == <<"audio_dir", 0>>         \* an asset of the music library

VoCache == <<"audio/tts", 0>>           \* poetry_voiceover_<hash>.wav

TempAudio == <<"temp-audio.m4a", 0>>    \* the fixed temp_audiofile name

Out(r) == <<"tmp_out", r>>              \* NamedTemporaryFile(suffix='.mp4')

BgTmp(r) == <<"tmp_bg", r>>             \* temporary background copy/download

AudioTmp(r) == <<"tmp_audio", r>>       \* temporary music copy

Paths == {BgOrig, BgFetched, AudioOrig, VoCache, TempAudio}
            \cup {Out(r) : r \in Requests}
            \cup {BgTmp(r) : r \in Requests}
            \cup {AudioTmp(r) : r \in Requests}

Missing == -1

Exists(files, p) == p # None /\ files[p] # Missing

Min(a, b) == IF a < b THEN a ELSE b

Max(a, b) == IF a > b THEN a ELSE b

----------------------------------------------------------------------------
(* Media clips.  A clip has the length of its source file, a duration     *)
(* (what the clip object reports), a content (how much of that duration is *)
(* covered by source material), the number of whole copies of the source   *)
(* it is made of, a gain and a start offset on the timeline.               *)

NoClip == [kind |-> "none"]

\* what a clip evaluates to when the call that builds it raises
Raised == [kind |-> "raised"]

\* AudioFileClip(path) / VideoFileClip(path) of a file of length L
FileClip(k, L) ==
    [kind |-> k, source |-> L, duration |-> L, content |-> L, copies |-> 1,
     gain |-> 100, start |-> 0]

\* concatenate_audioclips([clip] * n)
Concatenate(c, n) ==
    [c EXCEPT !.duration = n * c.duration, !.content = n * c.content,
              !.copies = n * c.copies]

\* clip.subclip(0, t_end): the new clip reports t_end whatever the source holds
SubClip(c, t_end) ==
    [c EXCEPT !.duration = t_end, !.content = Min(c.content, t_end)]

\* clip.loop(duration=D): time is taken modulo the source's duration
Loop(c, D) ==
    [c EXCEPT !.duration = D, !.content = D,
              !.copies = (D + c.duration - 1) \div c.duration]

\* clip.fx(volumex, g)
volumex(c, g) == [c EXCEPT !.gain = g]

\* ColorClip(size, color, duration)
ColorClip(color, D) ==
    [kind |-> "color", source |-> D, duration |-> D, content |-> D,
     copies |-> 1, gain |-> 100, start |-> 0, color |-> color]

\* AudioFileClip(path) / VideoFileClip(path) succeeds: the file exists, it
\* decodes, and this attempt to open it did not fail
Loads(files, p, attempt) == Exists(files, p) /\ attempt /\ files[p] > 0

----------------------------------------------------------------------------
(* Themes and captions: _create_text_clips and _apply_text_animation.  A   *)
(* poetry line is a number: 0 for an empty or whitespace-only line, k > 0  *)
(* for the text that was the k-th line of the poem.  Positions and sizes   *)
(* are in pixels, line_spacing in tenths, times in tenths of a second.     *)

Themes == {"nature", "ocean", "sunset", "minimal", "forest"}

AnimationTypes ==
    {"fade_in", "typewriter", "slide_up", "word_by_word", "gentle_zoom"}

\* get_theme_config(theme): THEME_CONFIGS[theme], by default the nature theme
ThemeConfig(theme) ==
    CASE theme = "ocean" ->
             [font_size |-> 46, line_spacing |-> 13, animation |-> "slide_up"]
      [] theme = "sunset" ->
             [font_size |-> 50, line_spacing |-> 15,
              animation |-> "gentle_zoom"]
      [] theme = "minimal" ->
             [font_size |-> 44, line_spacing |-> 16,
              animation |-> "typewriter"]
      [] theme = "forest" ->
             [font_size |-> 47, line_spacing |-> 14,
              animation |-> "word_by_word"]
      [] OTHER ->
             [font_size |-> 48, line_spacing |-> 14, animation |-> "fade_in"]

\* a line height rounded up to the next pixel
line_height_rounded(cfg) == (cfg.font_size * cfg.line_spacing + 9) \div 10

\* line_height = int(font_size * line_spacing)
line_height(cfg) == (cfg.font_size * cfg.line_spacing) \div 10

\* total_text_height = len(poetry_lines) * line_height
total_text_height(poetry_lines, cfg) == Len(poetry_lines) * line_height(cfg)

\* start_y = (height - total_text_height) // 2
start_y(poetry_lines, cfg) ==
    (video_height - total_text_height(poetry_lines, cfg)) \div 2

\* y_position = start_y + (i * line_height), i counted from 0
y_position(poetry_lines, cfg, i) ==
    start_y(poetry_lines, cfg) + i * line_height(cfg)

\* the semi-transparent background behind the text
TextBackground(poetry_lines, cfg, duration) ==
    [kind |-> "panel",
     width |-> video_width - 40,
     height |-> total_text_height(poetry_lines, cfg) + 60,
     y |-> start_y(poetry_lines, cfg) - 30,
     start |-> 0, duration |-> duration, fadein |-> 0]

\* TextClip(line.strip(), ..., size=(width - 100, None)) at y_position
TextClip(line, i, y) ==
    [kind |-> "text", line |-> line, index |-> i, width |-> video_width - 100,
     y |-> y, start |-> 0, duration |-> 0, fadein |-> 0]

\* the step between the starts of two lines, by animation type
AnimationStep(animation_type) ==
    CASE animation_type = "fade_in" -> 5
      [] animation_type = "slide_up" -> 3
      [] animation_type = "typewriter" -> 8
      [] animation_type = "word_by_word" -> 6
      [] animation_type = "gentle_zoom" -> 4
      [] OTHER -> 0

\* every animation type fading in over half a second
FadeIn_uniform(animation_type) == 5

\* the fade-in each animation type applies (slide_up applies none)
FadeIn(animation_type) ==
    CASE animation_type = "fade_in" -> 10
      [] animation_type = "slide_up" -> 0
      [] animation_type = "typewriter" -> 1
      [] animation_type = "word_by_word" -> 5
      [] animation_type = "gentle_zoom" -> 8
      [] OTHER -> 5

\* every line starts with the first one
AnimationDelay_together(animation_type, line_index) ==
    AnimationStep(animation_type)

\* delay = line_index * step
AnimationDelay(animation_type, line_index) ==
    line_index * AnimationStep(animation_type)

\* a line that is shown for the whole duration from its start on
ApplyTextAnimation_unclipped(clip, animation_type, duration, line_index) ==
    [clip EXCEPT !.start = AnimationDelay(animation_type, line_index),
                 !.duration = duration,
                 !.fadein = FadeIn(animation_type)]

\* _apply_text_animation(clip, animation_type, duration, line_index, ...):
\* clip.set_start(delay).set_duration(duration - delay), with the fade-in of
\* the type; any other type: clip.set_duration(duration).fadein(0.5)
ApplyTextAnimation(clip, animation_type, duration, line_index) ==
    IF animation_type \in AnimationTypes
    THEN [clip EXCEPT !.start = AnimationDelay(animation_type, line_index),
                      !.duration =
                          duration - AnimationDelay(animation_type, line_index),
                      !.fadein = FadeIn(animation_type)]
    ELSE [clip EXCEPT !.duration = duration,
                      !.fadein = FadeIn(animation_type)]

\* the indices i of enumerate(poetry_lines) that are not skipped:
\* if not line.strip(): continue
ShownIndices(poetry_lines) ==
    SelectSeq([k \in 1..Len(poetry_lines) |-> k - 1],
              LAMBDA i : poetry_lines[i + 1] # 0)

\* _create_text_clips(poetry_lines, theme_config, text_style_override,
\* animation_override, duration, width, height): the panel, then one clip
\* per line that is not empty
CreateTextClips(poetry_lines, cfg, animation_override, duration) ==
    LET animation_type == IF animation_override # "none"
                          THEN animation_override ELSE cfg.animation
        shown == ShownIndices(poetry_lines)
        txt_clip(i) ==
            ApplyTextAnimation(
                TextClip(poetry_lines[i + 1], i,
                         y_position(poetry_lines, cfg, i)),
                animation_type, duration, i)
    IN  <<TextBackground(poetry_lines, cfg, duration)>>
            \o [k \in 1..Len(shown) |-> txt_clip(shown[k])]

----------------------------------------------------------------------------
(* _create_video_sync, composition part *)

\* a hint that ignores the request's override
duration_hint_default(duration_override) == video_duration * 10

\* duration = duration_override or settings.video_duration
duration_hint(duration_override) ==
    IF duration_override # 0 THEN duration_override * 10
    ELSE video_duration * 10

\* a resolver that keeps the narration-based duration within the request's
actual_duration_clamped(files, duration, voiceover_path, attempt) ==
    IF Loads(files, voiceover_path, attempt)
    THEN Min(files[voiceover_path] + BufferTenths, duration)
    ELSE duration

\* Determine actual video duration based on voiceover
actual_duration(files, duration, voiceover_path, attempt) ==
    IF Loads(files, voiceover_path, attempt)
    THEN files[voiceover_path] + BufferTenths
    ELSE duration

\* a loop count without the extra copy
loops_needed_short(D, L) == D \div L

\* loops_needed = int(actual_duration / bg_audio.duration) + 1
loops_needed(D, L) == (D \div L) + 1

\* the try block of "Create background clip": load the file and fit it
LoadBackground(files, background_path, D, attempt) ==
    IF Loads(files, background_path, attempt)
    THEN LET background == FileClip("video", files[background_path])
         IN  IF background.duration < D
             THEN Loop(background, D)
             ELSE SubClip(background, D)
    ELSE Raised

\* a fallback in the theme's primary colour
CreateBackground_primary(files, background_path, D, attempt) ==
    IF Exists(files, background_path)
       /\ LoadBackground(files, background_path, D, attempt) # Raised
    THEN LoadBackground(files, background_path, D, attempt)
    ELSE ColorClip("primary", D)

\* a background whose load error is not caught
CreateBackground_uncaught(files, background_path, D, attempt) ==
    IF Exists(files, background_path)
    THEN LoadBackground(files, background_path, D, attempt)
    ELSE ColorClip("accent", D)

\* Create background clip: the loaded clip, or a solid colour when there is
\* no file or the try block raised
CreateBackground(files, background_path, D, attempt) ==
    IF Exists(files, background_path)
       /\ LoadBackground(files, background_path, D, attempt) # Raised
    THEN LoadBackground(files, background_path, D, attempt)
    ELSE ColorClip("accent", D)

\* bg_volume = 0.15 if voiceover_path else 0.25
bg_volume(voiceover_path) ==
    IF voiceover_path # None THEN GainWithVoice ELSE GainNoVoice

\* Process background music FIRST
BackgroundMusic(files, audio_path, voiceover_path, D, attempt) ==
    IF Loads(files, audio_path, attempt)
    THEN LET bg_audio == FileClip("music", files[audio_path])
             fitted == IF bg_audio.duration < D
                       THEN SubClip(Concatenate(bg_audio,
                                       loops_needed(D, bg_audio.duration)), D)
                       ELSE SubClip(bg_audio, D)
         IN  volumex(fitted, bg_volume(voiceover_path))
    ELSE NoClip

\* a voice-over fitted to the duration the way the music is
VoiceOver_looped(files, voiceover_path, D, attempt) ==
    IF Loads(files, voiceover_path, attempt)
    THEN LET voice_audio == FileClip("voice", files[voiceover_path])
         IN  volumex(IF voice_audio.duration < D
                     THEN SubClip(Concatenate(voice_audio,
                                     (D \div voice_audio.duration) + 1), D)
                     ELSE SubClip(voice_audio, D), GainVoice)
    ELSE NoClip

\* Process voice-over - DON'T loop it, just use it once
VoiceOver(files, voiceover_path, D, attempt) ==
    IF Loads(files, voiceover_path, attempt)
    THEN LET voice_audio == FileClip("voice", files[voiceover_path])
         IN  volumex(IF voice_audio.duration > D
                     THEN SubClip(voice_audio, D)
                     ELSE voice_audio, GainVoice)
    ELSE NoClip

\* CompositeAudioClip(clips): lasts until the last of its clips ends
CompositeAudioClip(music, voice) ==
    [kind |-> "audio", music |-> music, voice |-> voice,
     duration |-> Max(music.start + music.duration,
                      voice.start + voice.duration)]

\* a single clip used as the whole audio
SingleAudio(c) ==
    [kind |-> "audio",
     music |-> IF c.kind = "music" THEN c ELSE NoClip,
     voice |-> IF c.kind = "voice" THEN c ELSE NoClip,
     duration |-> c.duration]

\* Handle audio: mix background music with voice-over
MixAudio(music, voice, mix_ok) ==
    IF voice = NoClip
    THEN IF music = NoClip THEN NoClip ELSE SingleAudio(music)
    ELSE IF music # NoClip /\ mix_ok
         THEN CompositeAudioClip(music, voice)
         ELSE SingleAudio(voice)

NoRender == [kind |-> "none"]

\* voice_audio.duration as read when the duration is determined
voice_duration(files, voiceover_path, attempt) ==
    IF Loads(files, voiceover_path, attempt) THEN files[voiceover_path]
    ELSE Missing

\* write arguments that ask for an audio track whatever was mixed
WriteKwargs_always(final_audio) ==
    [audio_codec |-> "aac", temp_audiofile |-> TempAudio]

\* write_kwargs: if final_audio, audio_codec 'aac' and temp_audiofile
\* 'temp-audio.m4a' are added
WriteKwargs(final_audio) ==
    IF final_audio # NoClip
    THEN [audio_codec |-> "aac", temp_audiofile |-> TempAudio]
    ELSE [audio_codec |-> "none", temp_audiofile |-> None]

\* everything _create_video_sync builds before write_videofile
Compose(files, r_req, a) ==
    LET D == actual_duration(files, r_req.duration, r_req.voiceover_path,
                             a.dur)
        music == BackgroundMusic(files, r_req.audio_path,
                                 r_req.voiceover_path, D, a.music)
        voice == VoiceOver(files, r_req.voiceover_path, D, a.voice)
        final_audio == MixAudio(music, voice, a.mix)
        background == CreateBackground(files, r_req.background_path, D, a.bg)
    IN  IF background = Raised THEN Raised ELSE
        [kind |-> "render",
         actual_duration |-> D,
         voice_duration |-> voice_duration(files, r_req.voiceover_path, a.dur),
         background |-> background,
         final_audio |-> final_audio,
         \* final_video.set_audio(final_audio), which may fail
         video_audio |-> IF a.set THEN final_audio ELSE NoClip,
         \* write_kwargs['temp_audiofile'] = 'temp-audio.m4a'
         temp_audiofile |-> WriteKwargs(final_audio).temp_audiofile,
         audio_codec |-> WriteKwargs(final_audio).audio_codec,
         overlay |-> ColorClip("background_overlay", D),
         text_clips |-> CreateTextClips(r_req.poetry_lines,
                                        ThemeConfig(r_req.theme),
                                        r_req.animation, D),
         \* final_video.set_duration(actual_duration)
         final_video_duration |-> D]

\* whether each attempt of _create_video_sync to open a file, to mix and to
\* bind the audio succeeds
Attempts ==
    LET may == IF faults THEN BOOLEAN ELSE {TRUE}
    IN  [dur : may, bg : may, music : may, voice : may, mix : may, set : may]

----------------------------------------------------------------------------
(* State *)

\* the TTS engines, in order of preference
Providers == <<"azure", "edge", "system", "basic">>

\* what voice_style starts with: "azure_", "edge_" or something else
VoiceStyles == {"azure", "edge", "other"}

\* the engines the chain tries for a voice style, in order
Tried(voice_style) ==
    SelectSeq(Providers,
              LAMBDA p : /\ p = "azure" => voice_style = "azure"
                         /\ p = "edge" => voice_style = "edge")

\* the voice styles of the requests of a specification: two calls share the
\* cache file only for the same text and voice
RequestedStyles == IF workload = "narration" THEN {"azure"} ELSE VoiceStyles

\* what an engine reports when it is tried: whether it produced the file
ProviderOutcomes ==
    IF faults \/ workload = "narration" THEN BOOLEAN ELSE {TRUE}

\* the frame of a request that is not inside generate_poetry_voiceover
NoCall == [voice_style |-> "none", k |-> 0, reported |-> <<>>]

\* the engine the call of rq is attempting: the k-th of its chain
Attempting(rq) == Tried(rq.tts.voice_style)[rq.tts.k]

\* the engines that run their commands with subprocess.run, which returns
\* when the process has ended; _generate_azure_tts awaits its HTTP request
Blocking(provider) == provider # "azure"

\* the coroutine of r is inside a call that does not yield to the event loop
BlocksLoop(r) == pc[r] = "tts" /\ Blocking(Attempting(req[r]))

\* the event loop can run a step of the coroutine of r
LoopFree(r) == \A other \in Requests \ {r} : ~BlocksLoop(other)

\* whether the attempt has opened the output file when it first yields:
\* _generate_azure_tts opens it and writes the chunks as they arrive
OpenedAtStart(provider) ==
    IF provider = "azure" THEN {TRUE} \cup {~ok : ok \in ProviderOutcomes}
    ELSE {FALSE}

\* the files as an attempt leaves them: the narration, or on failure an
\* empty or partial file, or what was there
ProviderEnd(files, length, ok) ==
    IF ok THEN {[files EXCEPT ![VoCache] = length]}
    ELSE {[files EXCEPT ![VoCache] = 0], files}

\* a chain that goes on to the next engine whatever the last one reported
NextProvider_all(voice_style, k, success) ==
    IF k < Len(Tried(voice_style)) THEN k + 1 ELSE 0

\* if not success: success = await the next engine; 0 when none is tried
NextProvider(voice_style, k, success) ==
    IF ~success /\ k < Len(Tried(voice_style)) THEN k + 1 ELSE 0

\* a call that returns the output file whenever there is one
VoiceoverResult_unchecked(files, success) ==
    IF files[VoCache] # Missing THEN VoCache ELSE None

\* if success and output_file.exists(): return str(output_file), else None
VoiceoverResult(files, success) ==
    IF success /\ files[VoCache] # Missing THEN VoCache ELSE None

\* custom_poetry that is not provided (None or the empty string)
NoText == <<-1>>

\* no response sent yet
NoResponse ==
    [status |-> 0, success |-> FALSE, video_url |-> "none", duration |-> 0,
     error_message |-> "none"]

NoRequest ==
    [duration_override |-> 0, enable_voiceover |-> FALSE, duration |-> 0,
     theme |-> "nature", animation |-> "none", custom_poetry |-> NoText,
     poetry_lines |-> <<>>,
     background_path |-> None, audio_path |-> None, voiceover_path |-> None,
     all_tts_failed |-> FALSE, tts |-> NoCall, acquired |-> {},
     output_path |-> None, written_audio |-> NoClip,
     video_url |-> "none", error |-> "none", response |-> NoResponse]

\* the requests a specification admits
InitRequests(admitted) ==
    /\ pc = [r \in Requests |-> IF r \in admitted THEN "new" ELSE "absent"]
    /\ req = [r \in Requests |-> NoRequest]
    /\ render = [r \in Requests |-> NoRender]
    /\ queue = <<>>

\* the asset libraries and the voice-over cache as earlier runs left them
InitFiles(videos, tracks, cached) ==
    \E v \in videos, m \in tracks, c \in cached :
        fs = [p \in Paths |->
                 IF p = BgOrig THEN v
                 ELSE IF p = AudioOrig THEN m
                 ELSE IF p = VoCache THEN c
                 ELSE Missing]

\* a cached voice-over older than the maximal age of cleanup_old_files
InitStale == stale = {p \in {VoCache} : fs[p] # Missing}

\* one request, every input and every failure of the environment
Init ==
    /\ InitRequests({1})
    /\ narration \in NarrationLens
    /\ InitFiles({Missing, 0} \cup VideoLens, {Missing, 0} \cup MusicLens,
                 {Missing, 0, narration})
    /\ InitStale
    /\ faults = TRUE
    /\ workload = "any"

----------------------------------------------------------------------------
(* The /generate-video endpoint (generate_poetry_video of main.py): the    *)
(* poetry of the request, its validation and the responses.                *)

\* a text of n lines whose lines at the positions B are empty
RawPoem(n, B) == [k \in 1..n |-> IF k \in B THEN 0 ELSE k]

\* the custom_poetry texts of the clients: no empty line, one, or only
\* empty lines
CustomTexts ==
    UNION {{RawPoem(n, B) : B \in {{}, 1..n} \cup {{k} : k \in 1..n}} :
               n \in 1..MaxRawLines}

\* the poems get_poetry_for_theme answers with: between min_lines and
\* max_lines lines, as the poetry database (built in, scraped, or loaded
\* from its cache file) holds them
CuratedPoems ==
    {RawPoem(n, B) : n \in min_lines..max_lines,
                     B \in {{}} \cup {{k} : k \in 1..max_lines}}

Request(o, v, th, an, text) ==
    [duration_override |-> o, enable_voiceover |-> v, theme |-> th,
     animation |-> an, custom_poetry |-> text]

\* the requests the clients of a specification send
Clients ==
    CASE workload = "captions" ->
             {Request(o, v, th, an, text) :
                  o \in DurationOverrides, v \in BOOLEAN, th \in Themes,
                  an \in {"none", "typewriter"},
                  text \in {NoText} \cup CustomTexts}
      [] workload = "plain" ->
             {Request(0, FALSE, "nature", "none", NoText)}
      [] workload = "narration" ->
             {Request(0, TRUE, "nature", "none", NoText)}
      [] OTHER ->
             {Request(o, v, "nature", "none", text) :
                  o \in DurationOverrides, v \in BOOLEAN,
                  text \in {NoText, RawPoem(min_lines - 1, {})}}

\* the poems of the poetry service
PoetryDatabase ==
    IF workload = "captions" THEN CuratedPoems ELSE {RawPoem(min_lines, {})}

\* whether requests name a custom background URL
CustomBackgrounds == IF workload = "any" THEN BOOLEAN ELSE {FALSE}

\* request.custom_poetry.strip().split('\n'), each line stripped, the empty
\* ones dropped
CustomPoetryLines(text) == SelectSeq(text, LAMBDA line : line # 0)

\* Get poetry content
PoetryLines(custom_poetry, curated) ==
    IF custom_poetry # NoText THEN CustomPoetryLines(custom_poetry)
    ELSE curated

\* a poem passed on whole
Truncate_none(poetry_lines) == poetry_lines

\* if len(poetry_lines) > settings.max_lines: poetry_lines[:max_lines]
Truncate(poetry_lines) ==
    IF Len(poetry_lines) > max_lines THEN SubSeq(poetry_lines, 1, max_lines)
    ELSE poetry_lines

\* raise HTTPException(status_code=400, ...), re-raised by the handler
BadRequest ==
    [status |-> 400, success |-> FALSE, video_url |-> "none", duration |-> 0,
     error_message |-> "Poetry must have at least min_lines lines"]

\* return VideoGenerationResponse(success=True, video_url=video_url, ...,
\* duration=request.duration or settings.video_duration)
SuccessResponse(rq) ==
    [status |-> 200, success |-> TRUE, video_url |-> rq.video_url,
     duration |-> IF rq.duration_override # 0 THEN rq.duration_override
                  ELSE video_duration,
     error_message |-> "none"]

\* a failure answered as a success
FailureResponse_success(rq) ==
    [status |-> 200, success |-> TRUE, video_url |-> rq.video_url,
     duration |-> 0, error_message |-> rq.error]

\* except Exception: return VideoGenerationResponse(success=False, ...,
\* poetry_lines=[], duration=0, error_message=str(e))
FailureResponse(rq) ==
    [status |-> 200, success |-> FALSE, video_url |-> "none", duration |-> 0,
     error_message |-> rq.error]

\* the handler is entered: the poetry is taken from the request or from the
\* poetry service and its length validated
ReceiveRequest(r) ==
    /\ pc[r] = "new"
    /\ LoopFree(r)
    /\ \E c \in Clients, curated \in PoetryDatabase :
          LET poetry_lines == PoetryLines(c.custom_poetry, curated)
          IN  IF Len(poetry_lines) < min_lines
              THEN /\ req' = [req EXCEPT ![r].custom_poetry = c.custom_poetry,
                                         ![r].response = BadRequest]
                   /\ pc' = [pc EXCEPT ![r] = "rejected"]
              ELSE /\ req' = [req EXCEPT
                                 ![r].duration_override = c.duration_override,
                                 ![r].enable_voiceover = c.enable_voiceover,
                                 ![r].theme = c.theme,
                                 ![r].animation = c.animation,
                                 ![r].custom_poetry = c.custom_poetry,
                                 ![r].poetry_lines = Truncate(poetry_lines)]
                   /\ pc' = [pc EXCEPT ![r] = "accepted"]
    /\ UNCHANGED <<render, fs, queue, narration, stale, faults, workload>>

\* generate_video has returned or raised: the handler answers
Respond(r) ==
    /\ pc[r] \in {"done", "failed"}
    /\ LoopFree(r)
    /\ req' = [req EXCEPT ![r].response =
                   IF pc[r] = "done" THEN SuccessResponse(req[r])
                   ELSE FailureResponse(req[r])]
    /\ pc' = [pc EXCEPT ![r] = "responded"]
    /\ UNCHANGED <<render, fs, queue, narration, stale, faults, workload>>

----------------------------------------------------------------------------
(* generate_video, acquisition of the inputs.  An acquisition yields a     *)
(* path (or None) and the files as it leaves them.                         *)

Outcome(p, files) == [path |-> p, files |-> files]

\* the outcomes the environment allows: all of them, or (when no degradable
\* failure is injected) the ones that deliver a decodable file, if any
Allowed(outcomes) ==
    LET good == {o \in outcomes : Exists(o.files, o.path)
                                     /\ o.files[o.path] > 0
                                     /\ o.path \notin {BgOrig, AudioOrig}}
    IN  IF faults \/ good = {} THEN outcomes ELSE good

\* the services that answer
Services == IF faults THEN {"ok", "fails"} ELSE {"ok"}

\* _copy_to_temp(original_path): a temporary file is created and the asset
\* copied into it; when that raises the original path is returned, with or
\* without the empty temporary file left behind
CopyToTemp(files, original, tmp) ==
    {Outcome(tmp, [files EXCEPT ![tmp] = files[original]]),
     Outcome(original, [files EXCEPT ![tmp] = 0]),
     Outcome(original, files)}

\* _download_video(url): the body is written to a temporary file, or the
\* error is caught and None returned
DownloadVideo(files, tmp) ==
    {Outcome(tmp, [files EXCEPT ![tmp] = body]) : body \in {0} \cup VideoLens}
        \cup {Outcome(None, files)}

\* the video files of settings.backgrounds_dir
BackgroundFiles(files) == {p \in {BgOrig, BgFetched} : files[p] # Missing}

\* background_service.get_random_background(theme)
GetRandomBackground(files, tmp) ==
    IF BackgroundFiles(files) # {}
    THEN UNION {CopyToTemp(files, original, tmp) :
                    original \in BackgroundFiles(files)}
    ELSE \* no files available: fetch one into the library and return it
         {Outcome(BgFetched, [files EXCEPT ![BgFetched] = body]) :
              body \in {0} \cup VideoLens}
             \cup {Outcome(None, files)}

\* the fallback of _get_background_video to the local files
LocalBackground(files, tmp) ==
    IF BackgroundFiles(files) # {}
    THEN UNION {CopyToTemp(files, original, tmp) :
                    original \in BackgroundFiles(files)}
    ELSE {Outcome(None, files)}

\* _get_background_video(theme_config, theme_name, custom_background)
BackgroundOutcomes(files, tmp, custom_background, service) ==
    IF custom_background THEN DownloadVideo(files, tmp)
    ELSE IF service = "ok" THEN GetRandomBackground(files, tmp)
    ELSE LocalBackground(files, tmp)

\* audio_service.get_random_track(): a temporary copy of a track, if any
GetRandomTrack(files, tmp) ==
    IF files[AudioOrig] # Missing
    THEN CopyToTemp(files, AudioOrig, tmp)
    ELSE {Outcome(None, files)}

\* the fallback of _get_background_audio to the files of settings.audio_dir
LocalAudio(files, tmp) ==
    IF files[AudioOrig] # Missing
    THEN CopyToTemp(files, AudioOrig, tmp)
    ELSE {Outcome(None, files)}

\* _get_background_audio(theme_config)
AudioOutcomes(files, tmp, service) ==
    IF service = "ok" THEN GetRandomTrack(files, tmp)
    ELSE LocalAudio(files, tmp)

\* generate_video is entered: duration = duration_override or the default
StartRequest(r) ==
    /\ pc[r] = "accepted"
    /\ LoopFree(r)
    /\ req' = [req EXCEPT ![r].duration =
                              duration_hint(req[r].duration_override)]
    /\ pc' = [pc EXCEPT ![r] = "start"]
    /\ UNCHANGED <<render, fs, queue, narration, stale, faults, workload>>

\* background_path = await self._get_background_video(...)
GetBackgroundVideo(r) ==
    /\ pc[r] = "start"
    /\ LoopFree(r)
    /\ \E custom_background \in CustomBackgrounds, service \in Services :
          \E o \in Allowed(BackgroundOutcomes(fs, BgTmp(r), custom_background,
                                              service)) :
              /\ req' = [req EXCEPT ![r].background_path = o.path,
                                     ![r].acquired = @ \cup {"background"}]
              /\ fs' = o.files
    /\ pc' = [pc EXCEPT ![r] = "bg_done"]
    /\ UNCHANGED <<render, queue, narration, stale, faults, workload>>

\* audio_path = await self._get_background_audio(theme_config)
GetBackgroundAudio(r) ==
    /\ pc[r] = "bg_done"
    /\ LoopFree(r)
    /\ \E service \in Services :
          \E o \in Allowed(AudioOutcomes(fs, AudioTmp(r), service)) :
              /\ req' = [req EXCEPT ![r].audio_path = o.path,
                                     ![r].acquired = @ \cup {"audio"}]
              /\ fs' = o.files
    /\ pc' = [pc EXCEPT ![r] = "audio_done"]
    /\ UNCHANGED <<render, queue, narration, stale, faults, workload>>

\* Generate voice-over if enabled, one step of the coroutine at a time:
\* generate_poetry_voiceover is entered (the cached file is returned if
\* output_file.exists(), else the first engine is started), or the engine
\* attempted ends and the next one is started or the call returns.  An
\* exception out of the call leaves voiceover_path None.
GenerateVoiceover(r) ==
    /\ pc[r] \in {"audio_done", "tts"}
    /\ LoopFree(r)
    /\ IF pc[r] = "tts"
       THEN \E ok \in ProviderOutcomes :
              \E files \in ProviderEnd(fs, narration, ok) :
                LET call == req[r].tts
                    success == ok \/ \E i \in 1..Len(call.reported) :
                                         call.reported[i]
                    next == NextProvider(call.voice_style, call.k, success)
                IN  /\ fs' = files
                    /\ IF next # 0
                       THEN /\ req' = [req EXCEPT
                                         ![r].tts.k = next,
                                         ![r].tts.reported =
                                             Append(call.reported, ok)]
                            /\ pc' = pc
                       ELSE /\ req' = [req EXCEPT
                                         ![r].voiceover_path =
                                             VoiceoverResult(files, success),
                                         ![r].all_tts_failed = ~success,
                                         ![r].tts = NoCall,
                                         ![r].acquired =
                                             @ \cup {"voiceover"}]
                            /\ pc' = [pc EXCEPT ![r] = "tts_done"]
                    /\ stale' = stale \ {VoCache}
       ELSE IF ~req[r].enable_voiceover
       THEN /\ req' = [req EXCEPT ![r].acquired = @ \cup {"voiceover"}]
            /\ pc' = [pc EXCEPT ![r] = "tts_done"]
            /\ UNCHANGED <<fs, stale>>
       ELSE \/ /\ faults
               /\ req' = [req EXCEPT ![r].acquired = @ \cup {"voiceover"}]
               /\ pc' = [pc EXCEPT ![r] = "tts_done"]
               /\ UNCHANGED <<fs, stale>>
            \/ /\ fs[VoCache] # Missing
               /\ req' = [req EXCEPT ![r].voiceover_path = VoCache,
                                     ![r].acquired = @ \cup {"voiceover"}]
               /\ pc' = [pc EXCEPT ![r] = "tts_done"]
               /\ UNCHANGED <<fs, stale>>
            \/ /\ fs[VoCache] = Missing
               /\ \E voice_style \in RequestedStyles :
                    \E opened \in OpenedAtStart(Tried(voice_style)[1]) :
                       /\ req' = [req EXCEPT ![r].tts =
                                     [voice_style |-> voice_style, k |-> 1,
                                      reported |-> <<>>]]
                       /\ fs' = IF opened THEN [fs EXCEPT ![VoCache] = 0]
                                ELSE fs
               /\ pc' = [pc EXCEPT ![r] = "tts"]
               /\ stale' = stale \ {VoCache}
    /\ UNCHANGED <<render, queue, narration, faults, workload>>

\* TTSService.cleanup_old_files: an old cached voice-over is removed
CleanupOldFiles ==
    /\ stale # {}
    /\ fs' = [p \in Paths |-> IF p \in stale THEN Missing ELSE fs[p]]
    /\ stale' = {}
    /\ UNCHANGED <<pc, req, render, queue, narration, faults, workload>>

----------------------------------------------------------------------------
(* generate_video: render in the worker pool, upload, cleanup *)

\* the renders a worker of the pool is executing
Running == {r \in Requests : pc[r] = "rendering"}

\* a pool that starts every render at once
WorkerFree_unbounded == TRUE

\* a worker of ThreadPoolExecutor(max_workers=2) is idle
WorkerFree == Cardinality(Running) < max_workers

\* a render submitted as soon as the music has been acquired
AcquisitionDone_early(r) == pc[r] \in {"audio_done", "tts_done"}

\* the statements before run_in_executor have run: the three awaits of the
\* acquisitions have returned
AcquisitionDone(r) == pc[r] = "tts_done"

\* Create temporary output file; run_in_executor(self.executor, ...)
SubmitRender(r) ==
    /\ AcquisitionDone(r)
    /\ LoopFree(r)
    /\ fs' = [fs EXCEPT ![Out(r)] = 0]
    /\ req' = [req EXCEPT ![r].output_path = Out(r)]
    /\ queue' = Append(queue, r)
    /\ pc' = [pc EXCEPT ![r] = "queued"]
    /\ UNCHANGED <<render, narration, stale, faults, workload>>

\* write_videofile writes the audio to temp_audiofile when the video has one
MakeAudio(rd) == rd.video_audio # NoClip /\ rd.temp_audiofile # None

\* a free worker takes the next render: _create_video_sync composes the
\* clips and write_videofile starts, writing the temporary audio file
BeginRender(r) ==
    /\ pc[r] = "queued"
    /\ queue # <<>> /\ Head(queue) = r
    /\ WorkerFree
    /\ \E a \in Attempts :
          LET rd == Compose(fs, req[r], a)
          IN  /\ render' = [render EXCEPT ![r] = rd]
              /\ fs' = IF rd # Raised /\ MakeAudio(rd)
                       THEN [fs EXCEPT ![rd.temp_audiofile] =
                                          rd.video_audio.duration]
                       ELSE fs
              \* except Exception: raise
              /\ pc' = [pc EXCEPT ![r] = IF rd = Raised THEN "failed"
                                         ELSE "rendering"]
              /\ req' = IF rd = Raised
                        THEN [req EXCEPT ![r].error = "compose"]
                        ELSE req
    /\ queue' = Tail(queue)
    /\ UNCHANGED <<narration, stale, faults, workload>>

\* write_videofile ends: the video is encoded into output_path and the
\* temporary audio file removed (remove_temp), or the encoder fails and
\* _create_video_sync raises
FinishRender(r) ==
    /\ pc[r] = "rendering"
    /\ \/ /\ MakeAudio(render[r]) => fs[render[r].temp_audiofile] # Missing
          /\ fs' = [p \in Paths |->
                       IF p = req[r].output_path
                       THEN render[r].final_video_duration
                       ELSE IF MakeAudio(render[r])
                               /\ p = render[r].temp_audiofile
                       THEN Missing
                       ELSE fs[p]]
          /\ pc' = [pc EXCEPT ![r] = "rendered"]
          \* the audio is encoded when the video has one
          /\ req' = [req EXCEPT ![r].written_audio =
                                    IF MakeAudio(render[r])
                                    THEN render[r].video_audio ELSE NoClip]
       \/ /\ fs' = fs
          /\ pc' = [pc EXCEPT ![r] = "failed"]
          /\ req' = [req EXCEPT ![r].error = "render"]
    /\ UNCHANGED <<render, queue, narration, stale, faults, workload>>

\* an upload that starts once the render has been started
RenderCompleted_started(r) == pc[r] \in {"rendering", "rendered"}

\* await loop.run_in_executor(...) has returned without an exception
RenderCompleted(r) == pc[r] = "rendered"

\* video_url = await self.s3_service.upload_video(output_path, ...)
UploadVideo(r) ==
    /\ RenderCompleted(r)
    /\ LoopFree(r)
    /\ \/ /\ \E url \in {"remote", "file"} :
                req' = [req EXCEPT ![r].video_url = url]
          /\ pc' = [pc EXCEPT ![r] = "uploaded"]
       \/ /\ req' = [req EXCEPT ![r].error = "upload"]
          /\ pc' = [pc EXCEPT ![r] = "failed"]
    /\ UNCHANGED <<render, fs, queue, narration, stale, faults, workload>>

\* os.unlink(p)
Unlink(files, p) == [files EXCEPT ![p] = Missing]

\* a cleanup that removes the output whatever the URL
Cleanup_always(files, rq) ==
    LET f1 == Unlink(files, rq.output_path)
        f2 == IF Exists(f1, rq.background_path)
              THEN Unlink(f1, rq.background_path) ELSE f1
    IN  IF Exists(f2, rq.audio_path) THEN Unlink(f2, rq.audio_path) ELSE f2

\* Clean up temporary files (keep video if S3 is disabled for testing); an
\* exception of a step skips the steps after it
Cleanup(files, rq) ==
    LET keep_output == rq.video_url = "file"
        f1 == IF keep_output THEN files ELSE Unlink(files, rq.output_path)
        f2 == IF Exists(f1, rq.background_path)
              THEN Unlink(f1, rq.background_path) ELSE f1
        f3 == IF Exists(f2, rq.audio_path)
              THEN Unlink(f2, rq.audio_path) ELSE f2
    IN  IF ~keep_output /\ ~Exists(files, rq.output_path) THEN files ELSE f3

\* the cleanup of generate_video, then return video_url
CleanupTempFiles(r) ==
    /\ pc[r] = "uploaded"
    /\ LoopFree(r)
    /\ fs' = Cleanup(fs, req[r])
    /\ pc' = [pc EXCEPT ![r] = "done"]
    /\ UNCHANGED <<req, render, queue, narration, stale, faults, workload>>

Next ==
    \/ \E r \in Requests :
          \/ ReceiveRequest(r)
          \/ StartRequest(r)
          \/ GetBackgroundVideo(r)
          \/ GetBackgroundAudio(r)
          \/ GenerateVoiceover(r)
          \/ SubmitRender(r)
          \/ BeginRender(r)
          \/ FinishRender(r)
          \/ UploadVideo(r)
          \/ CleanupTempFiles(r)
          \/ Respond(r)
    \/ CleanupOldFiles

Spec == Init /\ [][Next]_vars

\* several requests in flight at once, on one library
InitPool ==
    /\ InitRequests(Requests)
    /\ narration = 123
    /\ InitFiles({400}, {50}, {Missing, narration})
    /\ InitStale
    /\ faults = FALSE
    /\ workload = "plain"

SpecPool == InitPool /\ [][Next]_vars

\* the pool with its scheduling: a worker that is idle takes the next
\* render submitted, and write_videofile comes to an end
SpecPoolFair ==
    /\ InitPool
    /\ [][Next]_vars
    /\ WF_vars(\E r \in Requests : BeginRender(r))
    /\ WF_vars(\E r \in Requests : FinishRender(r))

\* one request on a library that serves it, every theme, animation and poem
InitCaptions ==
    /\ InitRequests({1})
    /\ narration \in CaptionNarrationLens
    /\ InitFiles({50, 400}, {50}, {Missing, narration})
    /\ InitStale
    /\ faults = FALSE
    /\ workload = "captions"

SpecCaptions == InitCaptions /\ [][Next]_vars

\* two requests with narration for the same text and voice, with engines
\* that may fail
InitNarration ==
    /\ InitRequests({1, 2})
    /\ narration = 123
    /\ InitFiles({400}, {50}, {Missing, narration})
    /\ InitStale
    /\ faults = FALSE
    /\ workload = "narration"

SpecNarration == InitNarration /\ [][Next]_vars

----------------------------------------------------------------------------
(* Properties *)

\* the requests whose clips _create_video_sync has composed
Composed == {r \in Requests : render[r].kind = "render"}

\* a file that can be opened and decoded
Usable(files, p) == Exists(files, p) /\ files[p] > 0

\* r's worker has just composed the clips of r
ComposeStep(r) == pc[r] = "queued" /\ pc'[r] # "queued"

\* C1: in each of the four combinations of music and narration present or
\* absent, the audio bound to the output lasts exactly the resolved duration
\* (silence of that length when there is neither).
C1_AudioLastsResolvedDuration ==
    \A r \in Composed :
        render[r].video_audio = render[r].final_audio
            => /\ render[r].final_audio # NoClip
               /\ render[r].final_audio.duration = render[r].actual_duration

\* C2: whenever the narration file is there and loads, the resolved duration
\* of every later stage is the narration's length plus 2.0 s, whatever the
\* requested duration: no clamp from above or below.
C2_NarrationOverridesHint ==
    \A r \in Composed :
        render[r].voice_duration # Missing
            => /\ render[r].actual_duration = render[r].voice_duration + 20
               /\ render[r].background.duration = render[r].actual_duration
               /\ render[r].final_video_duration = render[r].actual_duration

C2_Witness ==
    \E r \in Composed :
        /\ render[r].voice_duration = 123
        /\ req[r].duration_override = 10
        /\ render[r].actual_duration = 143

\* C3: when there is no narration, or its file does not load, the resolved
\* duration is the hint: the request's override if given, else the default of
\* 18 s; the load error is not raised.
C3_HintWithoutNarration ==
    \A r \in Requests :
        /\ r \in Composed /\ render[r].voice_duration = Missing
             => render[r].actual_duration =
                    IF req[r].duration_override # 0
                    THEN req[r].duration_override * 10 ELSE 180
        /\ req[r].error # "compose"

C3_Witness ==
    \E r \in Composed :
        /\ req[r].voiceover_path # None
        /\ render[r].voice_duration = Missing
        /\ req[r].duration_override = 10
        /\ render[r].actual_duration = 100

\* C4: the music is scaled by 0.15 exactly when the final mix holds a
\* narration track and by 0.25 when it holds none, also when a narration path
\* was returned but its file is missing or does not load.
C4_MusicGainFollowsNarration ==
    \A r \in Composed :
        LET a == render[r].final_audio
        IN  a # NoClip /\ a.music # NoClip
                => /\ a.voice # NoClip => a.music.gain = 15
                   /\ a.voice = NoClip => a.music.gain = 25

\* C5: narration is never looped, repeated or stretched: in a mix it appears
\* once, from t = 0, with gain 0.5 and length min(narration, resolved
\* duration); it is the music that is fitted to the resolved duration.
C5_NarrationUsedOnce ==
    \A r \in Composed :
        LET a == render[r].final_audio
        IN  a # NoClip /\ a.voice # NoClip
                => /\ a.voice.copies = 1
                   /\ a.voice.start = 0
                   /\ a.voice.gain = 50
                   /\ a.voice.duration =
                          Min(a.voice.source, render[r].actual_duration)
                   /\ a.voice.content = a.voice.duration
                   /\ a.music # NoClip
                          => a.music.duration = render[r].actual_duration

C5_Witness ==
    \E r \in Composed :
        LET a == render[r].final_audio
        IN  /\ a # NoClip /\ a.voice # NoClip /\ a.music # NoClip
            /\ a.voice.source = 123
            /\ render[r].actual_duration = 143
            /\ a.music.source = 50

\* C6: a loadable background video or music clip of length L > 0 is fitted
\* to the resolved duration D: repeated when L < D (music: int(D/L)+1 whole
\* copies, which cover D) and cut to D, the prefix [0, D) when L >= D; the
\* fitted clip lasts exactly D and is never under-filled.
C6_ClipsFittedExactly ==
    \A r \in Composed :
        LET D == render[r].actual_duration
            b == render[r].background
            a == render[r].final_audio
            Fitted(c) == /\ c.duration = D
                         /\ c.content = D
                         /\ c.start = 0
                         /\ c.source >= D => c.copies = 1
                         /\ c.source < D => c.copies * c.source >= D
        IN  /\ b.kind = "video" => Fitted(b)
            /\ a # NoClip /\ a.music # NoClip
                 => /\ Fitted(a.music)
                    /\ a.music.source < D
                         => a.music.copies = (D \div a.music.source) + 1

C6_Witness ==
    \E r \in Composed :
        LET a == render[r].final_audio
        IN  /\ render[r].actual_duration = 143
            /\ a # NoClip /\ a.music # NoClip
            /\ a.music.source = 50 /\ a.music.copies = 3
            /\ render[r].background.kind = "video"
            /\ render[r].background.source = 400

\* C7: with no background path, a missing file, or a load that raises, the
\* background is a solid clip in the theme's accent colour lasting the
\* resolved duration, and the render goes on without raising.
C7_SolidColourFallback ==
    [][\A r \in Requests :
          ComposeStep(r)
             => /\ pc'[r] = "rendering"
                /\ render'[r].background.kind \in {"video", "color"}
                /\ ~Usable(fs, req[r].background_path)
                      => render'[r].background.kind = "color"
                /\ render'[r].background.kind = "color"
                      => /\ render'[r].background.color = "accent"
                         /\ render'[r].background.duration =
                                render'[r].actual_duration]_vars

C7_Witness ==
    \E r \in Composed :
        /\ pc[r] = "rendered"
        /\ req[r].background_path # None
        /\ fs[req[r].background_path] > 0
        /\ render[r].background.kind = "color"

\* C8: whatever fails while the background video, the music and the
\* narration are acquired or loaded, generate_video reaches the render and
\* does not raise for it; each failed input is replaced by its fallback
\* (solid colour, no music, duration from the hint and no narration track).
C8_DegradableFailuresNeverRaise ==
    [][\A r \in Requests :
          /\ pc'[r] = "failed" /\ pc[r] # "failed"
                => pc[r] \in {"rendering", "rendered"}
          /\ ComposeStep(r)
                => /\ pc'[r] = "rendering"
                   /\ ~Usable(fs, req[r].background_path)
                         => render'[r].background.kind = "color"
                   /\ ~Usable(fs, req[r].audio_path)
                         => \/ render'[r].final_audio = NoClip
                            \/ render'[r].final_audio.music = NoClip
                   /\ ~Usable(fs, req[r].voiceover_path)
                         => /\ render'[r].actual_duration = req[r].duration
                            /\ \/ render'[r].final_audio = NoClip
                               \/ render'[r].final_audio.voice = NoClip]_vars

C8_Witness ==
    \E r \in Composed :
        /\ pc[r] = "rendered"
        /\ req[r].background_path # None
        /\ req[r].audio_path # None
        /\ req[r].enable_voiceover
        /\ render[r].background.kind = "color"
        /\ render[r].final_audio = NoClip
        /\ render[r].actual_duration = req[r].duration

\* the temporary files created for request r
TempFiles(r) ==
    {Out(r), BgTmp(r), AudioTmp(r)}
        \cup (IF r \in Composed /\ MakeAudio(render[r])
              THEN {render[r].temp_audiofile} ELSE {})

\* C9: on every exit of generate_video (upload done, render failed, upload
\* failed, any other exception) every temporary file made for the request
\* (output, background copy, music copy, temporary audio) has been removed.
C9_TempFilesRemovedOnExit ==
    \A r \in Requests :
        pc[r] \in {"done", "failed"}
            => \A p \in TempFiles(r) : fs[p] = Missing

\* the files a render in progress writes or deletes
RenderFiles(r) ==
    {req[r].output_path}
        \cup (IF MakeAudio(render[r]) THEN {render[r].temp_audiofile} ELSE {})

\* C10: two renders running at once in the pool write and delete disjoint
\* sets of files (output, temporary audio, media copies), so neither can
\* corrupt or remove the other's temporary data.
C10_ConcurrentRendersDisjoint ==
    \A r1, r2 \in Running :
        r1 # r2 => RenderFiles(r1) \cap RenderFiles(r2) = {}

\* C11: renders run on a pool of two workers, off the request path: at any
\* time at most two renders are in progress, a render that waits for a free
\* worker is eventually started, and while a render is in progress the
\* handler still accepts a new request and enters generate_video.
C11_BoundedPoolOffRequestPath ==
    /\ [](Cardinality(Running) <= 2)
    /\ \A r \in Requests : (pc[r] = "queued") ~> (pc[r] # "queued")
    /\ [](\A r \in Requests :
              Running # {}
                  => /\ pc[r] = "new" => ENABLED ReceiveRequest(r)
                     /\ pc[r] = "accepted" => ENABLED StartRequest(r))

C11_Witness ==
    /\ Cardinality(Running) = 2
    /\ \E r \in Requests : pc[r] = "queued" /\ queue = <<r>>

\* the elements _create_video_sync has placed on the timeline of r
Timeline(r) ==
    {render[r].background, render[r].overlay}
        \cup {render[r].text_clips[k] : k \in 1..Len(render[r].text_clips)}

\* C12: the resolved duration D of a render never changes once computed;
\* the background, the overlay, the text panel and every text line satisfy
\* start + duration <= D, and the composite lasts exactly D.
C12_TimelineWithinResolvedDuration ==
    [][\A r \in Requests :
          /\ r \in Composed
                => /\ r \in Composed'
                   /\ render'[r].actual_duration = render[r].actual_duration
          /\ r \in Composed'
                => /\ \A e \in Timeline(r)' :
                          e.start + e.duration <= render'[r].actual_duration
                   /\ render'[r].final_video_duration
                          = render'[r].actual_duration]_vars

C12_Witness ==
    \E r \in Composed :
        /\ render[r].actual_duration = 143
        /\ render[r].background.source = 50
        /\ \E k \in 1..Len(render[r].text_clips) :
              /\ render[r].text_clips[k].start > 0
              /\ render[r].text_clips[k].start
                     + render[r].text_clips[k].duration = 143

\* C13: the duration field of a successful /generate-video response equals
\* the resolved duration of the rendered video (in seconds), also when the
\* narration overrides the requested duration.
C13_ReportedDurationIsRealized ==
    \A r \in Requests :
        pc[r] = "responded" /\ req[r].response.success
            => req[r].response.duration * 10 = render[r].actual_duration

\* a poem without its empty lines
NonEmpty(poetry_lines) == SelectSeq(poetry_lines, LAMBDA line : line # 0)

\* C14: an empty line takes no vertical slot: the panel (height and offset)
\* and the positions of the rendered lines are those of the layout of the
\* poem with its empty lines removed.
C14_EmptyLinesTakeNoSlot ==
    \A r \in Composed :
        LET clips == render[r].text_clips
            ref == CreateTextClips(NonEmpty(req[r].poetry_lines),
                                   ThemeConfig(req[r].theme),
                                   req[r].animation,
                                   render[r].actual_duration)
        IN  /\ Len(clips) = Len(ref)
            /\ clips[1].height = ref[1].height
            /\ \A k \in 1..Len(clips) : clips[k].y = ref[k].y

\* C15 as stated: line_height is exactly font_size * line_spacing, the text
\* height is line_count times that, start_y exactly half of what the frame
\* leaves, and line k sits at start_y + k * line_height (tenths of a pixel).
C15_ExactLayoutArithmetic ==
    \A r \in Composed :
        LET cfg == ThemeConfig(req[r].theme)
            clips == render[r].text_clips
            line_height10 == cfg.font_size * cfg.line_spacing
            total10 == Len(req[r].poetry_lines) * line_height10
            top == clips[1].y + 30
        IN  /\ clips[1].height * 10 = total10 + 600
            /\ 2 * 10 * top = 19200 - total10
            /\ \A k \in 2..Len(clips) :
                  clips[k].y * 10 = top * 10 + clips[k].index * line_height10

\* C15, amended: line_height is font_size * line_spacing rounded down to a
\* whole pixel, the text height is len(poetry_lines) times that, start_y is
\* half of what the frame leaves, rounded down; line k sits at
\* start_y + k * line_height, behind all lines lies one panel of
\* (width - 40, text height + 60) starting 30 pixels above start_y; the
\* slots of the lines follow each other without gap or overlap inside the
\* block, and the block is centred to within one pixel.
C15_LayoutInWholePixels ==
    \A r \in Composed :
        LET cfg == ThemeConfig(req[r].theme)
            clips == render[r].text_clips
            exact10 == cfg.font_size * cfg.line_spacing
            lh == CHOOSE h \in 0..200 : 10 * h <= exact10 /\ exact10 < 10 * (h + 1)
            total == Len(req[r].poetry_lines) * lh
            top == clips[1].y + 30
        IN  /\ clips[1].kind = "panel"
            /\ clips[1].width = 1080 - 40
            /\ clips[1].height = total + 60
            /\ 2 * top <= 1920 - total /\ 1920 - total <= 2 * top + 1
            /\ (1920 - (top + total)) - top \in {0, 1}
            /\ \A k \in 2..Len(clips) :
                  /\ clips[k].y = top + clips[k].index * lh
                  /\ top <= clips[k].y /\ clips[k].y + lh <= top + total
                  /\ \A j \in 2..Len(clips) :
                        clips[j].index = clips[k].index + 1
                            => clips[j].y = clips[k].y + lh

C15_Witness ==
    \E r \in Composed :
        /\ req[r].theme = "nature"
        /\ Len(req[r].poetry_lines) = 5
        /\ render[r].text_clips[1].height = 5 * 67 + 60
        /\ render[r].text_clips[1].y = 792 - 30
        /\ Len(render[r].text_clips) = 6
        /\ render[r].text_clips[6].y = 792 + 4 * 67

\* the animation type _create_text_clips uses for r
AnimationOf(r) ==
    IF req[r].animation # "none" THEN req[r].animation
    ELSE ThemeConfig(req[r].theme).animation

\* C16: in every animation mode the line of index i starts i times the
\* step of the mode after the start (fade 0.5 s, typewriter 0.8 s, slide-up
\* 0.3 s, word reveal 0.6 s, gentle zoom 0.4 s), later lines strictly later;
\* it is visible for D minus its delay and so ends exactly at D.
C16_StaggeredStartsEndAtD ==
    \A r \in Composed :
        LET D == render[r].actual_duration
            clips == render[r].text_clips
            step == CASE AnimationOf(r) = "fade_in" -> 5
                      [] AnimationOf(r) = "typewriter" -> 8
                      [] AnimationOf(r) = "slide_up" -> 3
                      [] AnimationOf(r) = "word_by_word" -> 6
                      [] AnimationOf(r) = "gentle_zoom" -> 4
        IN  \A k \in 2..Len(clips) :
                /\ clips[k].start = clips[k].index * step
                /\ clips[k].duration = D - clips[k].start
                /\ clips[k].start + clips[k].duration = D
                /\ \A j \in 2..Len(clips) :
                      clips[j].index < clips[k].index
                          => clips[j].start < clips[k].start

C16_Witness ==
    \E r \in Composed :
        /\ AnimationOf(r) = "typewriter"
        /\ render[r].actual_duration = 143
        /\ \E k \in 2..Len(render[r].text_clips) :
              /\ render[r].text_clips[k].index = 3
              /\ render[r].text_clips[k].start = 24
              /\ render[r].text_clips[k].duration = 119

\* the renders whose write_videofile has ended well
Written(r) == pc[r] \in {"rendered", "uploaded", "done"}

RenderFailed(rq) == rq.error \in {"compose", "render"}

\* C18: a failure of the render step is raised by generate_video: no upload
\* follows and no URL is returned, and the endpoint answers success=false
\* with an error message, no video_url and duration 0.
C18_RenderFailureIsSurfaced ==
    [][\A r \in Requests :
          /\ pc[r] = "rendering" /\ pc'[r] # "rendering" /\ pc'[r] # "rendered"
                => pc'[r] = "failed" /\ RenderFailed(req'[r])
          /\ pc[r] = "failed" /\ RenderFailed(req[r])
                => /\ pc'[r] \in {"failed", "responded"}
                   /\ req'[r].video_url = "none"
                   /\ RenderFailed(req'[r])
          /\ pc'[r] = "responded" /\ RenderFailed(req'[r])
                => /\ ~req'[r].response.success
                   /\ req'[r].response.error_message # "none"
                   /\ req'[r].response.video_url = "none"
                   /\ req'[r].response.duration = 0]_vars

C18_Witness ==
    \E r \in Requests :
        /\ pc[r] = "responded"
        /\ req[r].error = "render"
        /\ r \in Composed
        /\ ~req[r].response.success
        /\ req[r].response.error_message = "render"

\* the positions of the lines of a custom text that are not empty
NonEmptyPositions(text) == {k \in 1..Len(text) : text[k] # 0}

\* nothing was fetched or rendered for request r
NothingFetched(r) ==
    /\ req[r].background_path = None /\ req[r].audio_path = None
    /\ req[r].voiceover_path = None /\ req[r].output_path = None
    /\ render[r] = NoRender
    /\ \A p \in {Out(r), BgTmp(r), AudioTmp(r)} : fs[p] = Missing

\* C19: the poetry lines generate_video gets from the endpoint number
\* between 4 and 8; a custom text with fewer than 4 non-empty lines (zero
\* included) is answered with HTTP 400 before anything is fetched or
\* rendered, and of a longer one the first 8 non-empty lines are passed on,
\* in their order.
C19_LineCountWithinWindow ==
    \A r \in Requests :
        LET text == req[r].custom_poetry
            lines == req[r].poetry_lines
            short == text # NoText /\ Cardinality(NonEmptyPositions(text)) < 4
        IN  /\ pc[r] \notin {"absent", "new", "rejected"}
                  => /\ 4 <= Len(lines) /\ Len(lines) <= 8
                     /\ ~short
                     /\ text # NoText
                           => /\ Cardinality(NonEmptyPositions(text)) >= Len(lines)
                              /\ Cardinality(NonEmptyPositions(text)) <= 8
                                    => Cardinality(NonEmptyPositions(text))
                                           = Len(lines)
                              /\ \A k \in 1..Len(lines) :
                                    /\ lines[k] \in NonEmptyPositions(text)
                                    /\ Cardinality(
                                         {j \in NonEmptyPositions(text) :
                                              j < lines[k]}) = k - 1
            /\ pc[r] = "rejected"
                  => /\ short
                     /\ req[r].response.status = 400
                     /\ NothingFetched(r)

C19_Witness ==
    \E r \in Requests :
        /\ pc[r] = "tts_done"
        /\ Len(req[r].custom_poetry) = 10
        /\ req[r].custom_poetry[3] = 0
        /\ req[r].poetry_lines = <<1, 2, 4, 5, 6, 7, 8, 9>>

\* C20: when every engine of the chain fails, generate_poetry_voiceover
\* returns no path without raising, and generate_video goes on as for a
\* request without narration: the duration is the hint and the mix holds no
\* narration.
C20_ProviderChainFailureTolerated ==
    \A r \in Requests :
        req[r].all_tts_failed
            => /\ req[r].voiceover_path = None
               /\ req[r].error \in {"none", "compose", "render", "upload"}
               /\ pc[r] # "audio_done"
               /\ r \in Composed
                     => /\ render[r].voice_duration = -1
                        /\ render[r].actual_duration = req[r].duration
                        /\ render[r].final_audio # NoClip
                              => render[r].final_audio.voice = NoClip

C20_Witness ==
    \E r \in Composed :
        /\ req[r].enable_voiceover
        /\ req[r].all_tts_failed
        /\ fs[VoCache] = 0
        /\ render[r].actual_duration = 100
        /\ pc[r] = "rendered"

\* the place of an engine in the order of preference
Position(provider) ==
    CHOOSE i \in 1..Len(Providers) : Providers[i] = provider

\* the requests inside the engine chain of generate_poetry_voiceover
InChain == {r \in Requests : pc[r] = "tts"}

\* the chain of r returns in this step
ChainReturns(r) == pc[r] = "tts" /\ pc'[r] = "tts_done"

\* C21: the narration engines are tried strictly in sequence (Azure only for
\* azure voices, then Edge only for edge voices, then system, then basic): an
\* engine is attempted only if every engine attempted before it reported
\* failure, none is attempted after one reported success, and the chain
\* returns a path only if an engine reported success and the file exists.
C21_ProvidersTriedInSequence ==
    /\ [](\A r \in InChain :
            LET call == req[r].tts
                chain == Tried(call.voice_style)
            IN  /\ call.k \in 1..Len(chain)
                /\ Len(call.reported) = call.k - 1
                /\ \A i \in 1..Len(call.reported) : ~call.reported[i]
                /\ \A i \in 1..call.k : \A j \in 1..call.k :
                       i < j => Position(chain[i]) < Position(chain[j])
                /\ Attempting(req[r]) = "azure" => call.voice_style = "azure"
                /\ Attempting(req[r]) = "edge" => call.voice_style = "edge"
                /\ call.voice_style = "azure" => chain[1] = "azure"
                /\ call.voice_style = "edge" => chain[1] = "edge")
    /\ [][\A r \in Requests :
            /\ ChainReturns(r) /\ req'[r].voiceover_path # None
                  => /\ ~req'[r].all_tts_failed
                     /\ fs'[VoCache] # Missing
                     /\ req'[r].voiceover_path = VoCache
            /\ pc[r] = "tts" /\ pc'[r] = "tts"
                  => /\ req'[r].tts.k >= req[r].tts.k
                     /\ req'[r].tts.k > req[r].tts.k
                           => req'[r].tts.reported
                                  = Append(req[r].tts.reported, FALSE)]_vars

C21_Witness ==
    \E r \in InChain :
        /\ req[r].tts.voice_style = "azure"
        /\ Attempting(req[r]) = "basic"
        /\ req[r].tts.reported = <<FALSE, FALSE>>
        /\ fs[VoCache] = 0

\* the acquisitions of generate_video
Acquisitions == {"background", "audio", "voiceover"}

\* the requests whose render has been handed to the pool
Submitted ==
    {r \in Requests : pc[r] \in {"queued", "rendering", "rendered"}}

\* what the acquisitions of r have returned
Acquired(r) ==
    <<req[r].background_path, req[r].audio_path, req[r].voiceover_path>>

\* C22: within one request the acquisition of the background video, of the
\* music and of the narration has completed, each with a value or its
\* fallback, before the duration is resolved and the render starts; no render
\* is submitted, composed or running while a fetch of the request is
\* outstanding, and what was acquired does not change afterwards.
C22_AcquisitionBeforeRender ==
    /\ [](\A r \in Submitted \cup Composed :
              /\ req[r].acquired = Acquisitions
              /\ req[r].tts = NoCall
              /\ req[r].voiceover_path # None => req[r].enable_voiceover)
    /\ [][\A r \in Requests :
              /\ ComposeStep(r) => /\ req[r].acquired = Acquisitions
                                   /\ req[r].tts = NoCall
              /\ r \in Submitted => Acquired(r)' = Acquired(r)]_vars

C22_Witness ==
    \E r \in Composed :
        /\ pc[r] = "rendering"
        /\ req[r].acquired = Acquisitions
        /\ req[r].background_path = None
        /\ req[r].audio_path = AudioTmp(r)
        /\ req[r].voiceover_path = VoCache
        /\ render[r].voice_duration = narration

\* the files of the asset directories that the program does not create
LibraryAssets == {BgOrig, AudioOrig}

\* C23: the cleanup of generate_video deletes only temporary copies: no step
\* removes a file of the backgrounds or audio asset directories that existed
\* before the call, also when copying the asset to a temporary file failed.
C23_LibraryAssetsSurvive ==
    [][\A p \in LibraryAssets : fs[p] # Missing => fs'[p] # Missing]_vars

\* C24: a call of generate_poetry_voiceover in which every engine attempted
\* failed, also one that wrote an empty or partial file before failing,
\* leaves no file at the cache path, so that a later call for the same text
\* and voice synthesises again instead of returning the leftover file.
C24_FailedCallLeavesNoCacheFile ==
    [][\A r \in Requests :
          ChainReturns(r) /\ req'[r].all_tts_failed
              => fs'[VoCache] = Missing]_vars

\* generate_poetry_voiceover of r returns the file it found at the cache
\* path in this step
CacheHit(r) ==
    /\ pc[r] = "audio_done" /\ pc'[r] = "tts_done"
    /\ req'[r].voiceover_path = VoCache

\* C25: when two calls of generate_poetry_voiceover for the same text and
\* voice interleave, a call that finds the file existing does not return the
\* cache path while the engine of another call in flight is still writing it.
C25_NoReturnOfFileBeingWritten ==
    [][\A r \in Requests : CacheHit(r) => InChain \ {r} = {}]_vars

\* C26: for every request that reaches the renderer (at most max_lines
\* lines; the resolved duration is the hint, the default or the narration
\* length plus 2.0 s) every text line is visible for a strictly positive
\* time: the resolved duration exceeds the start delay of every line.
C26_EveryLineVisibleForPositiveTime ==
    \A r \in Composed :
        /\ Len(req[r].poetry_lines) <= max_lines
        /\ \A k \in 2..Len(render[r].text_clips) :
              /\ render[r].text_clips[k].start < render[r].actual_duration
              /\ render[r].text_clips[k].duration > 0

\* the steps of one generate_video call, in the order of its statements
Steps ==
    <<"start", "bg_done", "audio_done", "tts", "tts_done", "queued",
      "rendering", "rendered", "uploaded", "done">>

\* how far a call has come; 0 outside generate_video
Step(position) ==
    IF \E i \in 1..Len(Steps) : Steps[i] = position
    THEN CHOOSE i \in 1..Len(Steps) : Steps[i] = position
    ELSE 0

\* the files generate_video holds for the request
HeldFiles(rq) ==
    {rq.output_path, rq.background_path, rq.audio_path} \ {None}

\* C27: within one generate_video call the steps occur in the order acquire
\* media, render, upload, cleanup: the upload is invoked only after the
\* render has completed without error, render and upload are each attempted
\* at most once, and no file of the request is deleted before the upload has
\* returned.
C27_AcquireRenderUploadCleanup ==
    [][\A r \in Requests :
          /\ Step(pc[r]) # 0 /\ Step(pc'[r]) # 0
                => Step(pc'[r]) >= Step(pc[r])
          /\ Step(pc[r]) # 0 /\ Step(pc'[r]) = 0
                => \/ pc'[r] = "failed"
                   \/ pc[r] = "done" /\ pc'[r] = "responded"
          /\ pc'[r] # pc[r]
                => /\ pc'[r] = "queued" => pc[r] = "tts_done"
                   /\ pc'[r] = "rendering" => pc[r] = "queued"
                   /\ pc'[r] = "rendered" => pc[r] = "rendering"
                   /\ pc'[r] = "uploaded"
                         => /\ pc[r] = "rendered"
                            /\ req[r].error = "none"
                            /\ fs[req[r].output_path] > 0
                   /\ pc'[r] = "done" => pc[r] = "uploaded"
          /\ pc[r] = "failed" => pc'[r] \in {"failed", "responded"}
          /\ \A p \in HeldFiles(req[r]) :
                fs[p] # Missing /\ fs'[p] = Missing
                    => pc[r] = "uploaded" /\ pc'[r] = "done"]_vars

C27_Witness ==
    \E r \in Requests :
        /\ pc[r] = "done"
        /\ req[r].video_url = "remote"
        /\ req[r].background_path = BgTmp(r)
        /\ req[r].audio_path = AudioTmp(r)
        /\ \A p \in HeldFiles(req[r]) : fs[p] = Missing

\* the calls of generate_video that have returned a URL
Returned ==
    {r \in Requests : pc[r] \in {"done", "responded"}
                      /\ req[r].error = "none"
                      /\ req[r].output_path # None}

\* C28: the URL a successful generate_video returns never refers to a
\* deleted file: with a URL that starts with file:// the rendered output is
\* kept and exists on return, and the output is deleted only when the URL is
\* a remote one.
C28_LocalUrlKeepsOutput ==
    /\ \A r \in Returned :
          /\ req[r].video_url \in {"file", "remote"}
          /\ req[r].video_url = "file"
                => fs[req[r].output_path] = render[r].final_video_duration
          /\ fs[req[r].output_path] = Missing => req[r].video_url = "remote"
    /\ \A r \in Requests :
          Written(r) /\ fs[req[r].output_path] = Missing
              => pc[r] = "done" /\ req[r].video_url = "remote"

C28_Witness ==
    \E r \in Returned :
        /\ pc[r] = "done"
        /\ req[r].video_url = "file"
        /\ fs[req[r].output_path] > 0
        /\ req[r].background_path = BgTmp(r)
        /\ fs[BgTmp(r)] = Missing

\* what the composite shows of a clip at time t: nothing outside
\* [start, start + duration), the clip at growing opacity during the first
\* fadein tenths after its start, the clip as it is afterwards
LineState(clip, t) ==
    IF t < clip.start \/ t >= clip.start + clip.duration THEN "pending"
    ELSE IF t - clip.start < clip.fadein THEN "appearing"
    ELSE "visible"

\* the order of the states of a line
StateRank(state) ==
    CASE state = "pending" -> 0
      [] state = "appearing" -> 1
      [] state = "visible" -> 2

\* the renders being written: the frames are made while write_videofile runs
Playing == {r \in Composed : pc[r] = "rendering"}

\* C29: each text line goes through pending, appearing, visible by elapsed
\* time alone: pending before its start delay, appearing during the fade-in
\* window of the mode after it (none for slide-up), then visible until D,
\* never back to an earlier state; of two lines the earlier one leaves pending
\* no later and is visible no later than the later one.
C29_LinesPendingAppearingVisible ==
    \A r \in Playing :
        LET D == render[r].actual_duration
            clips == render[r].text_clips
            mode == AnimationOf(r)
            step == CASE mode = "fade_in" -> 5
                      [] mode = "typewriter" -> 8
                      [] mode = "slide_up" -> 3
                      [] mode = "word_by_word" -> 6
                      [] mode = "gentle_zoom" -> 4
            window == CASE mode = "fade_in" -> 10
                        [] mode = "typewriter" -> 1
                        [] mode = "slide_up" -> 0
                        [] mode = "word_by_word" -> 5
                        [] mode = "gentle_zoom" -> 8
        IN  \A k \in 2..Len(clips) : \A t \in 0..(D - 1) :
                LET start_delay == clips[k].index * step
                    state == LineState(clips[k], t)
                IN  /\ state = "pending" <=> t < start_delay
                    /\ state = "appearing"
                          <=> start_delay <= t /\ t < start_delay + window
                    /\ state = "visible" <=> start_delay + window <= t
                    /\ mode = "slide_up" => state # "appearing"
                    /\ t + 1 < D
                          => StateRank(LineState(clips[k], t + 1))
                                 >= StateRank(state)
                    /\ k < Len(clips)
                          => /\ clips[k].index < clips[k + 1].index
                             /\ StateRank(state)
                                    >= StateRank(LineState(clips[k + 1], t))

C29_Witness ==
    \E r \in Playing :
        /\ AnimationOf(r) = "gentle_zoom"
        /\ Len(render[r].text_clips) = 1 + max_lines
        /\ LineState(render[r].text_clips[3], 3) = "pending"
        /\ LineState(render[r].text_clips[3], 4) = "appearing"
        /\ LineState(render[r].text_clips[3], 11) = "appearing"
        /\ LineState(render[r].text_clips[3], 12) = "visible"
        /\ LineState(render[r].text_clips[4], 12) = "appearing"
        /\ LineState(render[r].text_clips[3], render[r].actual_duration - 1)
               = "visible"

\* the requests the endpoint has yet to accept or that are acquiring their
\* background or music
Arriving ==
    {r \in Requests : pc[r] \in {"new", "accepted", "start", "bg_done"}}

\* C30: no stage of generate_video before the render blocks the
\* request-handling path: while one request is in its narration synthesis
\* (an engine invocation, external subprocesses included) the event loop can
\* accept another request and let it make progress.
C30_NarrationDoesNotBlockTheLoop ==
    \A r \in InChain : \A other \in Arriving \ {r} :
        ENABLED (\/ ReceiveRequest(other)
                 \/ StartRequest(other)
                 \/ GetBackgroundVideo(other)
                 \/ GetBackgroundAudio(other))

====
